---- MODULE Spec2Model ----
(***************************************************************************)
(* tools/tts_build.py: the batch builder that turns the catalogue of       *)
(* sessions (title + timed cues) into one narrated audio track per         *)
(* session.  The module models the script as a state machine: the         *)
(* session loop, the per-cue loop with its four numbered steps, the calls  *)
(* to the external programs (ffmpeg, espeak-ng), which may fail, and the   *)
(* assembly of the output artifacts.                                       *)
(*                                                                         *)
(* Time is counted in ticks, TicksPerMs ticks to the millisecond, so that  *)
(* timestamps finer than make_silence's "%.3f" can be written.  Floating   *)
(* point is abstracted to exact arithmetic on ticks.                       *)
(***************************************************************************)
EXTENDS Integers, Sequences, FiniteSets, TLC

VARIABLES
    sessions,     \* SESSIONS: the catalogue, <<[title, cues]>>, cues = <<[t, text]>>
    index_mtime,  \* INDEX.stat().st_mtime
    files,        \* AUDIO_DIR: slug -> [mp3, m4a], each [exists, mtime, src]
    beep_exists,  \* beep_wav.exists(): TMP_DIR is emptied at start, errors ignored
    mix,          \* mix_wav: 0 when absent, else the session it was concatenated for
    pc,           \* position of the script
    sidx,         \* position of `for sess in SESSIONS` (1-based), 0 before the loop
    i,            \* `for i, cue in enumerate(cues)` (0-based, as in the code)
    parts,        \* parts: the segment list of the session being built
    now_t,        \* now_t: the cursor, in ticks
    calls,        \* the external commands run so far, in order
    err,          \* the exception that ended the run, NoErr while none
    started,      \* history: the sessions whose loop body was entered, in order
    snap          \* history: snap[1] = files at start, snap[j+1] = files after session j's step

vars == <<sessions, index_mtime, files, beep_exists, mix, pc, sidx, i, parts, now_t,
          calls, err, started, snap>>

----------------------------------------------------------------------------
(* Bounds of the model *)

TicksPerMs == 5
MaxCues == 2
MaxSessions == 2
MaxMTime == 2

(* Program constants, in milliseconds *)

LeadMs == 1000
BeepMs == 80
MakeBeepMs == 80
PreGapEpsMs == 1
FillEpsMs == 1
SlugMax == 80

Ms(n) == n * TicksPerMs

Max(a, b) == IF a >= b THEN a ELSE b
Min(a, b) == IF a <= b THEN a ELSE b

----------------------------------------------------------------------------
(* Text: a string is a sequence of one-character strings *)

Whitespace == {" ", "\t", "\n"}

RECURSIVE LStrip(_, _)
LStrip(s, cs) ==
    IF s # <<>> /\ Head(s) \in cs THEN LStrip(Tail(s), cs) ELSE s

RECURSIVE RStrip(_, _)
RStrip(s, cs) ==
    IF s # <<>> /\ s[Len(s)] \in cs THEN RStrip(SubSeq(s, 1, Len(s) - 1), cs) ELSE s

(* str.strip(chars) *)
StripChars(s, cs) == RStrip(LStrip(s, cs), cs)

(* str(cue.get("text", "")).strip() *)
Strip(s) == StripChars(s, Whitespace)

UpperToLower ==
    ("A" :> "a") @@ ("B" :> "b") @@ ("C" :> "c") @@ ("D" :> "d") @@ ("E" :> "e") @@
    ("F" :> "f") @@ ("G" :> "g") @@ ("H" :> "h") @@ ("I" :> "i") @@ ("J" :> "j") @@
    ("K" :> "k") @@ ("L" :> "l") @@ ("M" :> "m") @@ ("N" :> "n") @@ ("O" :> "o") @@
    ("P" :> "p") @@ ("Q" :> "q") @@ ("R" :> "r") @@ ("S" :> "s") @@ ("T" :> "t") @@
    ("U" :> "u") @@ ("V" :> "v") @@ ("W" :> "w") @@ ("X" :> "x") @@ ("Y" :> "y") @@
    ("Z" :> "z")

LowerAlnum ==
    {"a", "b", "c", "d", "e", "f", "g", "h", "i", "j", "k", "l", "m", "n", "o", "p",
     "q", "r", "s", "t", "u", "v", "w", "x", "y", "z",
     "0", "1", "2", "3", "4", "5", "6", "7", "8", "9"}

(* title.lower() *)
Lower(s) ==
    [n \in 1..Len(s) |-> IF s[n] \in DOMAIN UpperToLower THEN UpperToLower[s[n]] ELSE s[n]]

RECURSIVE SkipRun(_)
SkipRun(s) ==
    IF s # <<>> /\ Head(s) \notin LowerAlnum THEN SkipRun(Tail(s)) ELSE s

(* re.sub(r"[^a-z0-9]+", "-", s) *)
RECURSIVE SubRuns(_)
SubRuns(s) ==
    IF s = <<>> THEN <<>>
    ELSE IF Head(s) \in LowerAlnum THEN <<Head(s)>> \o SubRuns(Tail(s))
    ELSE <<"-">> \o SubRuns(SkipRun(s))

slugify(title) ==
    LET s == StripChars(SubRuns(Lower(title)), {"-"})
    IN  SubSeq(s, 1, Min(Len(s), SlugMax))

----------------------------------------------------------------------------
(* Segments and the external generators *)

Lead == Ms(LeadMs)
Beep == Ms(BeepMs)

(* "{seconds:.3f}": the duration ffmpeg is given, rounded to the millisecond *)
Fmt3(x) == ((2 * x + TicksPerMs) \div (2 * TicksPerMs)) * TicksPerMs

(* make_silence: the duration of the clip it writes *)
make_silence(seconds) == Fmt3(Max(0, seconds))

(* make_beep(beep_wav): the duration of the clip it writes *)
make_beep == Fmt3(Ms(MakeBeepMs))

(* A part of the timeline: dur is what the compiler accounts for the segment  *)
(* (the silence it asked for, the 0.08 s of the beep, the clip's own length   *)
(* for speech), clip is the length of the WAV file behind it.                 *)
Silence(cue, d) ==
    [kind |-> "Silence", cue |-> cue, dur |-> d, clip |-> make_silence(d), text |-> <<>>]
Tone(cue) ==
    [kind |-> "Tone", cue |-> cue, dur |-> Beep, clip |-> make_beep, text |-> <<>>]
Speech(cue, txt, d) ==
    [kind |-> "Speech", cue |-> cue, dur |-> d, clip |-> d, text |-> txt]

RECURSIVE SumDur(_)
SumDur(ps) == IF ps = <<>> THEN 0 ELSE ps[Len(ps)].dur + SumDur(SubSeq(ps, 1, Len(ps) - 1))

----------------------------------------------------------------------------
(* The four steps of one cue, on a timeline tl = [parts, now_t] *)

(* Variant: the text is tested without strip() *)
IsSkippedNoStrip(cue) == cue.text = <<>>

(* if not txt: continue *)
IsSkipped(cue) == Strip(cue.text) = <<>>

(* Variant: the silence is appended whatever the sign of pre_gap *)
PreGapStepUnclamped(tl, n, t) ==
    LET pre_gap == (t - Lead) - tl.now_t
    IN  [parts |-> Append(tl.parts, Silence(n, pre_gap)), now_t |-> tl.now_t + pre_gap]

(* 1) silence up to t - 1 s *)
PreGapStep(tl, n, t) ==
    LET pre_gap == (t - Lead) - tl.now_t
    IN  IF pre_gap > Ms(PreGapEpsMs)
        THEN [parts |-> Append(tl.parts, Silence(n, pre_gap)), now_t |-> tl.now_t + pre_gap]
        ELSE tl

(* Variant: the cursor advances but the beep is not appended *)
ToneStepNoAppend(tl, n) ==
    [parts |-> tl.parts, now_t |-> tl.now_t + Beep]

(* Variant: the beep is appended but the cursor does not advance *)
ToneStepNoAdvance(tl, n) ==
    [parts |-> Append(tl.parts, Tone(n)), now_t |-> tl.now_t]

(* 2) the beep *)
ToneStep(tl, n) ==
    [parts |-> Append(tl.parts, Tone(n)), now_t |-> tl.now_t + Beep]

(* 3) fill up to t *)
FillStep(tl, n, t) ==
    LET fill == t - tl.now_t
    IN  IF fill > Ms(FillEpsMs)
        THEN [parts |-> Append(tl.parts, Silence(n, fill)), now_t |-> tl.now_t + fill]
        ELSE tl

(* Variant: step 5 carried out, the cursor advances by the clip's length *)
SpeechStepAdvances(tl, n, txt, d) ==
    [parts |-> Append(tl.parts, Speech(n, txt, d)), now_t |-> tl.now_t + d]

(* 4) the narration; now_t is left as it is (step 5 of the code is a comment) *)
SpeechStep(tl, n, txt, d) ==
    [parts |-> Append(tl.parts, Speech(n, txt, d)), now_t |-> tl.now_t]

(* The whole of one cue, and the cue loop as a function of the cue list and   *)
(* of the lengths ds of the clips the synthesizer returns, in call order      *)
CueSteps(tl, n, cue, d) ==
    SpeechStep(FillStep(ToneStep(PreGapStep(tl, n, cue.t), n), n, cue.t),
               n, Strip(cue.text), d)

RECURSIVE CompileFrom(_, _, _, _)
CompileFrom(tl, cs, n, ds) ==
    IF n >= Len(cs) THEN tl
    ELSE IF IsSkipped(cs[n + 1]) THEN CompileFrom(tl, cs, n + 1, ds)
    ELSE CompileFrom(CueSteps(tl, n, cs[n + 1], Head(ds)), cs, n + 1, Tail(ds))

compile(cs, ds) == CompileFrom([parts |-> <<>>, now_t |-> 0], cs, 0, ds)

----------------------------------------------------------------------------
(* The output directory *)

Absent == [exists |-> FALSE, mtime |-> 0, src |-> 0]

(* The mtime of a file written during the run: later than the catalogue's and *)
(* than that of any file found at start.                                      *)
RunTime == MaxMTime + 1

Written(s) == [exists |-> TRUE, mtime |-> RunTime, src |-> s]

(* out_mp3.exists() and out_mp3.stat().st_mtime > INDEX.stat().st_mtime *)
UpToDate(out_mp3) == out_mp3.exists /\ out_mp3.mtime > index_mtime

----------------------------------------------------------------------------
(* Inputs *)

Start == <<"s", "t", "a", "r", "t">>
End == <<"e", "n", "d">>

Texts == {<<>>, <<" ", "\n">>, Start, <<" ">> \o End \o <<"\t">>}

(* Timestamps: around the two thresholds of the first cue (pre_gap and fill   *)
(* equal to 0.001 s, and one tick above it), and far apart.                   *)
Times == {Ms(81), Ms(81) + 1, Ms(1001), Ms(1001) + 1, Ms(5000)}

(* What the synthesizer may return as the length of a clip *)
SpeechDurs == {Ms(500), Ms(2500)}

Cues == [t : Times, text : Texts]

(* Two cue lists with plain texts: far apart, and clustered *)
ExampleCues == <<[t |-> Ms(5000), text |-> Start], [t |-> Ms(10000), text |-> End]>>
ClusteredCues == <<[t |-> Ms(2000), text |-> Start], [t |-> Ms(2050), text |-> End]>>

CueLists == UNION {[1..n -> Cues] : n \in 0..MaxCues} \cup {ExampleCues, ClusteredCues}

TitleA == <<"R", "u", "n", " ", "1">>
TitleB == <<"r", "u", "n", "-", "-", "1", "!">>
TitleC == <<"W", "k", " ", "2">>
Titles == {TitleA, TitleB, TitleC}

Slugs == {slugify(t) : t \in Titles}

(* The cue lists of the batch runs: one cue, a skipped cue then a cue *)
BatchCueLists ==
    {<<[t |-> Ms(2000), text |-> Start]>>,
     <<[t |-> Ms(5000), text |-> <<>>], [t |-> Ms(2050), text |-> End]>>}

BatchSessions == [title : Titles, cues : BatchCueLists]

(* The artifacts of one slug before the run: none, or both from an earlier run *)
ArtifactsAtStart ==
    {[mp3 |-> Absent, m4a |-> Absent]} \cup
    {[mp3 |-> [exists |-> TRUE, mtime |-> m, src |-> 0],
      m4a |-> [exists |-> TRUE, mtime |-> m, src |-> 0]] : m \in 0..MaxMTime}

NoErr == [fn |-> "none", sess |-> 0, cue |-> 0]

----------------------------------------------------------------------------
(* Initial states: the script has read index.html and parsed SESSIONS *)

InitRest ==
    /\ index_mtime = MaxMTime - 1
    /\ mix = 0
    /\ pc = "beep"
    /\ sidx = 0
    /\ i = 0
    /\ parts = <<>>
    /\ now_t = 0
    /\ calls = <<>>
    /\ err = NoErr
    /\ started = <<>>
    /\ snap = <<files>>

(* One session, every cue list up to MaxCues cues *)
InitCompile ==
    /\ sessions \in {<<[title |-> TitleA, cues |-> c]>> : c \in CueLists}
    /\ files \in {[g \in Slugs |-> [mp3 |-> IF g = slugify(TitleA) THEN m ELSE Absent,
                                    m4a |-> Absent]] :
                    m \in {Absent, [exists |-> TRUE, mtime |-> MaxMTime, src |-> 0]}}
    /\ beep_exists = FALSE
    /\ InitRest

(* Up to MaxSessions sessions, titles that share a slug, old and new artifacts *)
InitBatch ==
    /\ sessions \in UNION {[1..n -> BatchSessions] : n \in 0..MaxSessions}
    /\ files \in [Slugs -> ArtifactsAtStart]
    /\ beep_exists \in BOOLEAN
    /\ InitRest

----------------------------------------------------------------------------
(* The script *)

Cur == sessions[sidx]
Cue == Cur.cues[i + 1]
TL == [parts |-> parts, now_t |-> now_t]
slug == slugify(Cur.title)

Call(fn) == Append(calls, [fn |-> fn, sess |-> sidx, cue |-> i])

(* Variant: the failure is recorded and the loop goes on to the next session *)
RaiseAndContinue(fn) ==
    /\ pc' = "session"
    /\ err' = [fn |-> fn, sess |-> sidx, cue |-> i]
    /\ calls' = Call(fn)
    /\ sidx' = sidx + 1
    /\ snap' = Append(snap, files)
    /\ UNCHANGED <<sessions, index_mtime, beep_exists, files, mix, i, parts, now_t, started>>

(* subprocess.check_call raises CalledProcessError; nothing catches it, so    *)
(* the interpreter exits.                                                     *)
Raise(fn) ==
    /\ pc' = "failed"
    /\ err' = [fn |-> fn, sess |-> sidx, cue |-> i]
    /\ calls' = Call(fn)
    /\ UNCHANGED <<sessions, index_mtime, beep_exists, files, mix, sidx, i, parts, now_t, started, snap>>

(* beep_wav = TMP_DIR / "beep.wav"; if not beep_wav.exists(): make_beep(beep_wav) *)
MakeBeep ==
    /\ pc = "beep"
    /\ IF beep_exists
       THEN /\ pc' = "session"
            /\ sidx' = 1
            /\ UNCHANGED <<sessions, index_mtime, beep_exists, files, mix, i, parts,
                           now_t, calls, err, started, snap>>
       ELSE \/ /\ pc' = "session"
               /\ sidx' = 1
               /\ beep_exists' = TRUE
               /\ calls' = Call("make_beep")
               /\ UNCHANGED <<sessions, index_mtime, files, mix, i, parts, now_t,
                              err, started, snap>>
            \/ Raise("make_beep")

(* for sess in SESSIONS: ... if up to date: continue *)
SkipSession ==
    /\ pc = "session"
    /\ sidx <= Len(sessions)
    /\ UpToDate(files[slug].mp3)
    /\ started' = Append(started, sidx)
    /\ snap' = Append(snap, files)
    /\ sidx' = sidx + 1
    /\ UNCHANGED <<sessions, index_mtime, beep_exists, files, mix, pc, i, parts, now_t, calls, err>>

(* parts = []; now_t = 0.0 *)
BeginSession ==
    /\ pc = "session"
    /\ sidx <= Len(sessions)
    /\ ~UpToDate(files[slug].mp3)
    /\ started' = Append(started, sidx)
    /\ parts' = <<>>
    /\ now_t' = 0
    /\ i' = 0
    /\ pc' = "cue"
    /\ UNCHANGED <<sessions, index_mtime, beep_exists, files, mix, sidx, calls, err, snap>>

(* for i, cue in enumerate(cues): ... if not txt: continue *)
NextCue ==
    /\ pc = "cue"
    /\ IF i >= Len(Cur.cues)
       THEN /\ pc' = "concat"
            /\ i' = i
       ELSE IF IsSkipped(Cue)
       THEN /\ pc' = "cue"
            /\ i' = i + 1
       ELSE /\ pc' = "pregap"
            /\ i' = i
    /\ UNCHANGED <<sessions, index_mtime, beep_exists, files, mix, sidx, parts, now_t, calls, err,
                   started, snap>>

(* A step that appends a silence runs make_silence first, which may fail *)
SilenceStep(tl2, next) ==
    IF tl2 = TL
    THEN /\ pc' = next
         /\ UNCHANGED <<sessions, index_mtime, beep_exists, files, mix, sidx, i, parts, now_t, calls,
                        err, started, snap>>
    ELSE \E ok \in BOOLEAN :
        IF ok
        THEN /\ parts' = tl2.parts
             /\ now_t' = tl2.now_t
             /\ calls' = Call("make_silence")
             /\ pc' = next
             /\ UNCHANGED <<sessions, index_mtime, beep_exists, files, mix, sidx, i, err, started, snap>>
        ELSE Raise("make_silence")

PreGap ==
    /\ pc = "pregap"
    /\ SilenceStep(PreGapStep(TL, i, Cue.t), "tone")

PlayTone ==
    /\ pc = "tone"
    /\ parts' = ToneStep(TL, i).parts
    /\ now_t' = ToneStep(TL, i).now_t
    /\ pc' = "fill"
    /\ UNCHANGED <<sessions, index_mtime, beep_exists, files, mix, sidx, i, calls, err, started, snap>>

Fill ==
    /\ pc = "fill"
    /\ SilenceStep(FillStep(TL, i, Cue.t), "tts")

(* tts_wav(txt, seg); parts.append(seg) *)
Tts ==
    /\ pc = "tts"
    /\ \/ \E d \in SpeechDurs :
             /\ parts' = SpeechStep(TL, i, Strip(Cue.text), d).parts
             /\ now_t' = SpeechStep(TL, i, Strip(Cue.text), d).now_t
             /\ calls' = Call("tts_wav")
             /\ i' = i + 1
             /\ pc' = "cue"
             /\ UNCHANGED <<sessions, index_mtime, beep_exists, files, mix, sidx, err, started, snap>>
       \/ Raise("tts_wav")

(* concat_wavs(parts, mix_wav) *)
Concat ==
    /\ pc = "concat"
    /\ \/ /\ mix' = sidx
          /\ calls' = Call("concat_wavs")
          /\ pc' = "mp3"
          /\ UNCHANGED <<sessions, index_mtime, beep_exists, files, sidx, i, parts, now_t, err,
                         started, snap>>
       \/ Raise("concat_wavs")

(* encode_mp3(mix_wav, out_mp3) *)
EncodeMp3 ==
    /\ pc = "mp3"
    /\ \/ /\ files' = [files EXCEPT ![slug].mp3 = Written(sidx)]
          /\ calls' = Call("encode_mp3")
          /\ pc' = "m4a"
          /\ UNCHANGED <<sessions, index_mtime, beep_exists, mix, sidx, i, parts, now_t, err,
                         started, snap>>
       \/ Raise("encode_mp3")

(* encode_m4a(mix_wav, out_m4a); mix_wav.unlink(missing_ok=True), errors ignored *)
EncodeM4a ==
    /\ pc = "m4a"
    /\ \/ /\ files' = [files EXCEPT ![slug].m4a = Written(sidx)]
          /\ calls' = Call("encode_m4a")
          /\ \E removed \in BOOLEAN : mix' = IF removed THEN 0 ELSE mix
          /\ snap' = Append(snap, files')
          /\ sidx' = sidx + 1
          /\ pc' = "session"
          /\ UNCHANGED <<sessions, index_mtime, beep_exists, i, parts, now_t, err, started>>
       \/ Raise("encode_m4a")

(* print("Klaar.") *)
Finish ==
    /\ pc = "session"
    /\ sidx > Len(sessions)
    /\ pc' = "done"
    /\ UNCHANGED <<sessions, index_mtime, beep_exists, files, mix, sidx, i, parts, now_t, calls, err,
                   started, snap>>

Next ==
    \/ MakeBeep
    \/ SkipSession
    \/ BeginSession
    \/ NextCue
    \/ PreGap
    \/ PlayTone
    \/ Fill
    \/ Tts
    \/ Concat
    \/ EncodeMp3
    \/ EncodeM4a
    \/ Finish

Spec == InitCompile /\ [][Next]_vars

SpecBatch == InitBatch /\ [][Next]_vars

----------------------------------------------------------------------------
(* Vocabulary of the properties *)

Epsilon == Ms(1)

(* Empty or whitespace-only text *)
IsBlank(text) == \A n \in 1..Len(text) : text[n] \in Whitespace

(* The script is inside the body of the session loop for session sidx *)
Building ==
    \/ pc \in {"cue", "pregap", "tone", "fill", "tts", "concat", "mp3", "m4a"}
    \/ pc = "failed" /\ err.fn # "make_beep"

(* The cue loop of session sidx has run to its end *)
Compiled == pc \in {"concat", "mp3", "m4a"}

(* A segment list without the cue indices *)
Shape(ps) ==
    [n \in 1..Len(ps) |->
        [kind |-> ps[n].kind, dur |-> ps[n].dur, clip |-> ps[n].clip, text |-> ps[n].text]]

(* A segment list as kind, duration and text *)
Plain(ps) ==
    [n \in 1..Len(ps) |-> [kind |-> ps[n].kind, dur |-> ps[n].dur, text |-> ps[n].text]]

Kinds(ps) == [n \in 1..Len(ps) |-> ps[n].kind]

OfCue(ps, c) == LET T(p) == p.cue = c IN SelectSeq(ps, T)

SpeechDursOf(ps) ==
    LET T(p) == p.kind = "Speech"
        sp == SelectSeq(ps, T)
    IN  [n \in 1..Len(sp) |-> sp[n].dur]

(* Start of segment k on the realized timeline *)
StartOf(ps, k) == SumDur(SubSeq(ps, 1, k - 1))

(* Index of the first segment of cue c, of its Tone *)
FirstOf(ps, c) == CHOOSE k \in 1..Len(ps) : ps[k].cue = c /\ \A m \in 1..(k - 1) : ps[m].cue # c
ToneOf(ps, c) == CHOOSE k \in 1..Len(ps) : ps[k].cue = c /\ ps[k].kind = "Tone"

RECURSIVE SumClip(_)
SumClip(ps) ==
    IF ps = <<>> THEN 0 ELSE ps[Len(ps)].clip + SumClip(SubSeq(ps, 1, Len(ps) - 1))

(* The example session has been compiled, every clip 0.5 s long *)
ExampleCompiled ==
    /\ pc = "concat"
    /\ Cur.cues = ExampleCues
    /\ SpeechDursOf(parts) = <<Ms(500), Ms(500)>>

Seg(kind, d, text) == [kind |-> kind, dur |-> d, text |-> text]

----------------------------------------------------------------------------
(* C1: during and after the compilation of a session, the cursor now_t equals *)
(* the sum of the durations of all the segments appended so far, Speech       *)
(* included.                                                                  *)
C1_CursorIsSumOfDurations == Building => now_t = SumDur(parts)

(* C2: for every spoken cue such that everything emitted before it ends at or *)
(* before t - lead on the realized timeline, its Tone starts at t - lead and  *)
(* its Speech starts at t.  Stated for the cues that are more than epsilon    *)
(* ahead of t - lead, where the silence threshold plays no part.              *)
C2_ResyncAtNextCue ==
    Building =>
        \A k \in 1..Len(parts) :
            parts[k].kind = "Speech" =>
                LET c == parts[k].cue
                    t == Cur.cues[c + 1].t
                IN  StartOf(parts, FirstOf(parts, c)) + Epsilon < t - Lead =>
                        /\ StartOf(parts, ToneOf(parts, c)) = t - Lead
                        /\ StartOf(parts, k) = t

C4_NoSegmentOfFailedCue ==
    (pc = "failed" /\ err.fn = "tts_wav") =>
        \A k \in 1..Len(parts) : parts[k].cue # err.cue

(* C5: when a step of the assembly fails, neither artifact of the session has *)
(* been created or changed by the build, and the session is still stale.      *)
(* Stated for the sessions that have at least one segment to assemble.        *)
C5_NoPartialArtifact ==
    (pc = "failed" /\ err.fn \in {"concat_wavs", "encode_mp3", "encode_m4a"}
                   /\ parts # <<>>) =>
        /\ files[slug] = snap[Len(snap)][slug]
        /\ ~UpToDate(files[slug].mp3)

(* C6: after a completed cue loop, every cue with non-blank text contributes  *)
(* one block [Silence]? Tone [Silence]? Speech whose Speech carries the cue's *)
(* stripped text, blank cues contribute nothing, and the blocks stand in cue  *)
(* order.                                                                     *)
BlockShapes ==
    {<<"Tone", "Speech">>, <<"Silence", "Tone", "Speech">>,
     <<"Tone", "Silence", "Speech">>, <<"Silence", "Tone", "Silence", "Speech">>}

C6_Ordering ==
    Compiled =>
        /\ \A k \in 1..Len(parts) : parts[k].cue \in 0..(Len(Cur.cues) - 1)
        /\ \A k \in 1..(Len(parts) - 1) : parts[k].cue <= parts[k + 1].cue
        /\ \A c \in 0..(Len(Cur.cues) - 1) :
              LET block == OfCue(parts, c)
              IN  IF IsBlank(Cur.cues[c + 1].text)
                  THEN block = <<>>
                  ELSE /\ Kinds(block) \in BlockShapes
                       /\ block[Len(block)].text = Strip(Cur.cues[c + 1].text)

C6_Witness ==
    /\ Compiled
    /\ Kinds(parts) = <<"Silence", "Tone", "Silence", "Speech", "Tone", "Speech">>

(* C7: the cursor never decreases while a session is compiled; every Silence  *)
(* is asked for with a duration above epsilon and rendered with a positive    *)
(* one; when t - lead is at or before the cursor, no Silence precedes the     *)
(* cue's Tone, which is appended right after the previous cue's Speech.       *)
C7_SilencesPositive ==
    \A k \in 1..Len(parts) :
        parts[k].kind = "Silence" => parts[k].dur > Epsilon /\ parts[k].clip > 0

C7_NoRewindStep ==
    /\ pc \in {"cue", "pregap", "tone", "fill", "tts"} => now_t' >= now_t
    /\ (pc = "pregap" /\ Cue.t - Lead <= now_t) =>
          /\ pc' = "tone"
          /\ parts' = parts
          /\ now_t' = now_t
          /\ parts # <<>> =>
                parts[Len(parts)].kind = "Speech" /\ parts[Len(parts)].cue < i
    /\ pc = "tone" =>
          /\ Len(parts') = Len(parts) + 1
          /\ SubSeq(parts', 1, Len(parts)) = parts
          /\ parts'[Len(parts')].kind = "Tone"

C7_MonotoneNoRewind == []C7_SilencesPositive /\ [][C7_NoRewindStep]_vars

C7_Witness ==
    /\ pc = "fill"
    /\ i = 1
    /\ Cur.cues[1].t = Ms(2000)
    /\ Cue.t = Ms(2050)
    /\ Kinds(parts) = <<"Silence", "Tone", "Silence", "Speech", "Tone">>

(* C8: a cue with blank text appends nothing, runs no external command and    *)
(* leaves the cursor alone; the compiled timeline is the one of the cue list  *)
(* without its blank cues.                                                    *)
C8_SkipStep ==
    (pc = "cue" /\ i < Len(Cur.cues) /\ IsBlank(Cue.text)) =>
        /\ parts' = parts
        /\ now_t' = now_t
        /\ calls' = calls
        /\ pc' = "cue"
        /\ i' = i + 1

C8_SameAsWithoutBlanks ==
    Compiled =>
        LET NotBlank(c) == ~IsBlank(c.text)
            kept == SelectSeq(Cur.cues, NotBlank)
            tl == compile(kept, SpeechDursOf(parts))
        IN  /\ Shape(parts) = Shape(tl.parts)
            /\ now_t = tl.now_t

C8_SkipEmpty == []C8_SameAsWithoutBlanks /\ [][C8_SkipStep]_vars

C8_Witness ==
    /\ Compiled
    /\ Len(Cur.cues) = 2
    /\ Cur.cues[1].text = <<" ", "\n">>
    /\ Cur.cues[1].t = Ms(5000)
    /\ Cur.cues[2].t = Ms(1001) + 1
    /\ Len(parts) = 4

(* C9: sessions are entered in catalogue order; a failure ends the run with   *)
(* no later session entered; the artifacts of the sessions already built or   *)
(* skipped stay as their own step left them.                                  *)
C9_State ==
    /\ started = [n \in 1..Len(started) |-> n]
    /\ err # NoErr => pc = "failed" /\ Len(started) = err.sess
    /\ \A j \in 1..(Len(snap) - 1) :
          files[slugify(sessions[j].title)] = snap[j + 1][slugify(sessions[j].title)]

C9_BatchAbort == []C9_State /\ [][pc # "failed"]_vars

C9_Witness ==
    /\ pc = "failed"
    /\ err.fn = "encode_m4a"
    /\ err.sess = 2
    /\ files[slugify(sessions[1].title)].mp3.src = 1

(* C10: from the start of a cue's Tone to the start of its Speech there are   *)
(* at least the tone's duration and at most lead + epsilon; exactly lead when *)
(* a pre-gap Silence was emitted for the cue, exactly the tone's duration     *)
(* when no fill Silence was; on the durations accounted for and on those of   *)
(* the clips alike.                                                           *)
C10_LeadBound ==
    \A k \in 1..Len(parts) :
        parts[k].kind = "Speech" =>
            LET c == parts[k].cue
                tone == ToneOf(parts, c)
                between == SubSeq(parts, tone, k - 1)
                pregap == \E m \in 1..(tone - 1) : parts[m].cue = c
                nofill == k = tone + 1
            IN  \A lead \in {SumDur(between), SumClip(between)} :
                    /\ lead >= Beep
                    /\ lead <= Lead + Epsilon
                    /\ pregap => lead = Lead
                    /\ nofill => lead = Beep

C10_Witness ==
    /\ Len(parts) = 7
    /\ Kinds(parts) = <<"Tone", "Silence", "Speech", "Silence", "Tone", "Silence", "Speech">>
    /\ SumDur(SubSeq(parts, 1, 2)) = Lead + Epsilon

====
